---- MODULE Spec2Model ----
(***************************************************************************)
(* PageRank estimators of src/test2.py: transition_model, sample_pagerank  *)
(* and iterate_pagerank, over link graphs as crawl() builds them.          *)
(*                                                                         *)
(* Python's floating-point numbers are modelled by exact arithmetic:       *)
(*  - small rationals [num, den] (reduced, den > 0) in transition_model    *)
(*    and sample_pagerank;                                                 *)
(*  - in iterate_pagerank, where 40 iterations at damping 17/20 need       *)
(*    denominators near 40^40, every rank is the numerator of a fraction   *)
(*    over the common denominator `scale`, held as an arbitrary-precision  *)
(*    natural number (a little-endian sequence of base-10000 limbs).       *)
(***************************************************************************)
EXTENDS Integers, Sequences, FiniteSets, TLC

\* ---------------------------------------------------------------- bounds
\* Largest sample count n tried by sample_pagerank's callers.
MaxN == 3
\* Largest value of `iterations` at which the model still starts a pass of
\* the while loop (the code itself has no cap).
MaxIter == 45

\* ------------------------------------------------------- program constants
\* while changes >= 0.001 : the threshold is 1 / ThresholdDen.
ThresholdDen == 1000
\* round(..., 5): five decimal digits.
RoundUnits == 100000

\* ---------------------------------------------------------- small rationals
\* Each operation binds its operands with a quantifier over a one-element
\* set, so that an operand written as an expression is computed once and
\* not once for every place that reads it.
RECURSIVE GCD(_, _)
GCD(a, b) ==
    CHOOSE r \in { IF y = 0 THEN x ELSE GCD(y, x % y) : x \in {a}, y \in {b} }
        : TRUE

Abs(x) == IF x < 0 THEN -x ELSE x

\* The rational a/b (b # 0), reduced, with a positive denominator.
Rat(a, b) ==
    CHOOSE r \in { [num |-> (s * x) \div g, den |-> (s * y) \div g]
                   : x \in {a}, y \in {b},
                     g \in {GCD(Abs(a), Abs(b))},
                     s \in {IF b < 0 THEN -1 ELSE 1} } : TRUE

RInt(k) == [num |-> k, den |-> 1]

RAdd(x, y) ==
    CHOOSE r \in { Rat(u.num * v.den + v.num * u.den, u.den * v.den)
                   : u \in {x}, v \in {y} } : TRUE

RSub(x, y) ==
    CHOOSE r \in { Rat(u.num * v.den - v.num * u.den, u.den * v.den)
                   : u \in {x}, v \in {y} } : TRUE

\* x / k for an integer k # 0.
RDivInt(x, k) == CHOOSE r \in { Rat(u.num, u.den * k) : u \in {x} } : TRUE

RLess(x, y) == \E u \in {x}, v \in {y} : u.num * v.den < v.num * u.den

RECURSIVE RSumOver(_, _)
\* sum(f.values()) restricted to the keys in S.
RSumOver(f, S) ==
    CHOOSE r \in { IF T = {} THEN RInt(0)
                   ELSE LET p == CHOOSE q \in T : TRUE
                        IN  RAdd(g[p], RSumOver(g, T \ {p}))
                   : g \in {f}, T \in {S} } : TRUE

\* sum(d.values())
RSum(f) == RSumOver(f, DOMAIN f)

\* round(x, 5), in units of 1e-5 (round half up).
Round5(x) ==
    CHOOSE r \in { (2 * u.num * RoundUnits + u.den) \div (2 * u.den)
                   : u \in {x} } : TRUE

\* ------------------------------------------- arbitrary-precision naturals
\* A natural number is the sequence of its base-10000 limbs, least
\* significant first, without leading zero limbs (zero is <<>>).  As above,
\* every operation binds its operands once.
Base == 10000

RECURSIVE BNorm(_)
\* Drop the leading (last) zero limbs: every number has one representation.
BNorm(a) ==
    CHOOSE r \in { IF x = <<>> THEN <<>>
                   ELSE IF x[Len(x)] = 0
                        THEN BNorm(SubSeq(x, 1, Len(x) - 1))
                   ELSE x
                   : x \in {a} } : TRUE

RECURSIVE BFromInt(_)
BFromInt(k) ==
    CHOOSE r \in { IF x = 0 THEN <<>>
                   ELSE <<x % Base>> \o BFromInt(x \div Base)
                   : x \in {k} } : TRUE

\* Limb i of a, 0 beyond its length.
Limb(a, i) == IF i <= Len(a) THEN a[i] ELSE 0

RECURSIVE BAddC(_, _, _, _)
\* The limbs of a + b from limb i on, with the carry into limb i.
BAddC(a, b, i, carry) ==
    CHOOSE r \in { IF j > Len(x) /\ j > Len(y) THEN BFromInt(c)
                   ELSE <<(Limb(x, j) + Limb(y, j) + c) % Base>>
                        \o BAddC(x, y, j + 1,
                                 (Limb(x, j) + Limb(y, j) + c) \div Base)
                   : x \in {a}, y \in {b}, j \in {i}, c \in {carry} } : TRUE

\* a + b
BAdd(a, b) == BAddC(a, b, 1, 0)

RECURSIVE BMulC(_, _, _, _)
\* The limbs of a * k from limb i on, with the carry into limb i.
BMulC(a, k, i, carry) ==
    CHOOSE r \in { IF j > Len(x) THEN BFromInt(c)
                   ELSE <<(x[j] * y + c) % Base>>
                        \o BMulC(x, y, j + 1, (x[j] * y + c) \div Base)
                   : x \in {a}, y \in {k}, j \in {i}, c \in {carry} } : TRUE

\* a * k for a small natural k.
BMulSmall(a, k) == BNorm(BMulC(a, k, 1, 0))

RECURSIVE BLessR(_, _, _)
\* a < b for numbers of the same length, comparing from limb i down.
BLessR(a, b, i) ==
    \E x \in {a}, y \in {b}, j \in {i} :
        IF j = 0 THEN FALSE
        ELSE IF x[j] # y[j] THEN x[j] < y[j]
        ELSE BLessR(x, y, j - 1)

\* a < b
BLess(a, b) ==
    \E x \in {a}, y \in {b} :
        IF Len(x) # Len(y) THEN Len(x) < Len(y) ELSE BLessR(x, y, Len(x))

RECURSIVE BSubC(_, _, _, _)
\* The limbs of a - b from limb i on, with the borrow from limb i.
BSubC(a, b, i, borrow) ==
    CHOOSE r \in { IF j > Len(x) THEN <<>>
                   ELSE <<(x[j] - Limb(y, j) - c) % Base>>
                        \o BSubC(x, y, j + 1,
                                 IF x[j] - Limb(y, j) - c < 0 THEN 1 ELSE 0)
                   : x \in {a}, y \in {b}, j \in {i}, c \in {borrow} } : TRUE

\* a - b for a >= b
BSub(a, b) == BNorm(BSubC(a, b, 1, 0))

\* abs(a - b)
BAbsDiff(a, b) ==
    CHOOSE r \in { IF BLess(x, y) THEN BSub(y, x) ELSE BSub(x, y)
                   : x \in {a}, y \in {b} } : TRUE

RECURSIVE BDivR(_, _, _, _)
\* Long division from the most significant limb; rem is the running remainder.
BDivR(a, k, i, rem) ==
    CHOOSE r \in { IF j = 0 THEN <<>>
                   ELSE BDivR(x, y, j - 1, (m * Base + x[j]) % y)
                        \o <<(m * Base + x[j]) \div y>>
                   : x \in {a}, y \in {k}, j \in {i}, m \in {rem} } : TRUE

\* a \div k for a small k > 0.
BDivSmall(a, k) ==
    CHOOSE r \in { BNorm(BDivR(x, k, Len(x), 0)) : x \in {a} } : TRUE

RECURSIVE BSumOver(_, _)
BSumOver(f, S) ==
    CHOOSE r \in { IF T = {} THEN <<>>
                   ELSE LET p == CHOOSE q \in T : TRUE
                        IN  BAdd(g[p], BSumOver(g, T \ {p}))
                   : g \in {f}, T \in {S} } : TRUE

\* sum(d.values()) of numerators
BSum(f) == BSumOver(f, DOMAIN f)

\* ------------------------------------------------------------ the inputs
\* Page names (filenames of the crawled directory).
Pages == {"A", "B", "C"}

\* Graphs as crawl() returns them: every target is a key, no page links to
\* itself; the directory may hold no page at all.
Corpora ==
    UNION { { c \in [K -> SUBSET K] : \A p \in K : p \notin c[p] }
            : K \in SUBSET Pages }

\* DAMPING = 0.85
DAMPING == [num |-> 17, den |-> 20]

\* Damping factors passed by callers; 0 and 1 lie outside (0, 1).
Dampings == { RInt(0), Rat(1, 2), DAMPING, RInt(1) }

\* Sample counts passed by callers; -1 and 0 are below 1.
SampleCounts == -1 .. MaxN

\* -------------------------------------------------------- transition_model
\* len(corpus)
num_files(c) == Cardinality(DOMAIN c)

\* len(corpus[page])
num_links(c, pg) == Cardinality(c[pg])

rand_prob_undivided(c, d) == RSub(RInt(1), d)
\* (1 - damping_factor) / num_files, in both branches
rand_prob(c, d) == RDivInt(RSub(RInt(1), d), num_files(c))

spec_prob_by_files(c, pg, d) ==
    IF num_links(c, pg) # 0 THEN RDivInt(d, num_files(c)) ELSE RInt(0)
\* damping_factor / num_links, or 0 for a page without links
spec_prob(c, pg, d) ==
    IF num_links(c, pg) # 0 THEN RDivInt(d, num_links(c, pg)) ELSE RInt(0)

\* The dictionary transition_model returns, for page a key of corpus.
transition_model(c, pg, d) ==
    [file \in DOMAIN c |->
        IF Cardinality(c[pg]) = 0 THEN RDivInt(RInt(1), num_files(c))
        ELSE IF file \notin c[pg] THEN rand_prob(c, d)
        ELSE RAdd(spec_prob(c, pg, d), rand_prob(c, d))]

\* round(sum(d.values()), 5) != 1
SumIsNotOne(dist) == Round5(RSum(dist)) # RoundUnits

\* random.choices(choices, weights): any choice of positive weight.
WeightedChoices(dist) == { p \in DOMAIN dist : dist[p].num > 0 }

\* ---------------------------------------------------------------- state
VARIABLES
    corpus,          \* the link graph
    damping_factor,  \* the damping factor of the call
    op,              \* the function called: "none" before the call
    pc,              \* position of the call
    page,            \* transition_model: the page argument
    n,               \* sample_pagerank: the n argument
    result,          \* the dictionary returned (<<>> while none is)
    error,           \* the exception raised to the caller, or "none"
    warning,         \* transition_model printed its ERROR line
    sample_PR,       \* sample_pagerank: visit counters
    sample,          \* sample_pagerank: current sample, "None" at first
    iteration,       \* sample_pagerank: iterations of range(n) done
    iterate_PR,      \* iterate_pagerank: rank numerators over scale
    previous_state,  \* iterate_pagerank: snapshot, numerators over scale
    scale,           \* iterate_pagerank: common denominator of the ranks
    changes,         \* iterate_pagerank: largest change, numerator over scale
    iterations,      \* iterate_pagerank: the iterations counter
    todo             \* iterate_pagerank: pages the for loop has yet to visit

vars == <<corpus, damping_factor, op, pc, page, n, result, error, warning,
          sample_PR, sample, iteration, iterate_PR, previous_state, scale,
          changes, iterations, todo>>

input_vars == <<corpus, damping_factor>>
sample_vars == <<n, sample_PR, sample, iteration>>
iterate_vars == <<iterate_PR, previous_state, scale, changes, iterations, todo>>

keys == DOMAIN corpus
num_pages == Cardinality(keys)

Init ==
    /\ corpus \in Corpora
    /\ damping_factor \in Dampings
    /\ op = "none"
    /\ pc = "idle"
    /\ page = "None"
    /\ n = 0
    /\ result = <<>>
    /\ error = "none"
    /\ warning = FALSE
    /\ sample_PR = <<>>
    /\ sample = "None"
    /\ iteration = 0
    /\ iterate_PR = <<>>
    /\ previous_state = <<>>
    /\ scale = <<>>
    /\ changes = <<>>
    /\ iterations = 0
    /\ todo = {}

\* ------------------------------------------------ transition_model, called
\* corpus[page] raises KeyError when page is no key of corpus.
CallTransition(pg) ==
    /\ pc = "idle"
    /\ op' = "transition"
    /\ page' = pg
    /\ pc' = "done"
    /\ IF pg \notin keys
       THEN /\ error' = "KeyError"
            /\ UNCHANGED <<result, warning>>
       ELSE LET trans_mod == transition_model(corpus, pg, damping_factor)
            IN  /\ result' = trans_mod
                /\ warning' = SumIsNotOne(trans_mod)
                /\ error' = "none"
    /\ UNCHANGED <<input_vars, sample_vars, iterate_vars>>

\* --------------------------------------------------------- sample_pagerank
CallSample(nn) ==
    /\ pc = "idle"
    /\ op' = "sample"
    /\ n' = nn
    /\ sample_PR' = [p \in keys |-> 0]
    /\ sample' = "None"
    /\ iteration' = 0
    /\ pc' = "sample_loop"
    /\ UNCHANGED <<input_vars, page, result, error, warning, iterate_vars>>

in_range_inclusive(i, nn) == i <= nn
\* range(n) has a next element after i iterations
in_range(i, nn) == i < nn

\* One iteration of `for iteration in range(n)`.
SampleStep ==
    /\ pc = "sample_loop"
    /\ in_range(iteration, n)
    /\ IF sample = "None"
       THEN IF keys = {}
            THEN \* random.choice([]) raises IndexError
                 /\ error' = "IndexError"
                 /\ pc' = "done"
                 /\ UNCHANGED <<sample_PR, sample, iteration, warning>>
            ELSE \E s \in keys :
                 /\ sample' = s
                 /\ sample_PR' = [sample_PR EXCEPT ![s] = @ + 1]
                 /\ iteration' = iteration + 1
                 /\ UNCHANGED <<error, pc, warning>>
       ELSE LET next_sample_prob ==
                    transition_model(corpus, sample, damping_factor)
            IN  \E s \in WeightedChoices(next_sample_prob) :
                 /\ sample' = s
                 /\ sample_PR' = [sample_PR EXCEPT ![s] = @ + 1]
                 /\ iteration' = iteration + 1
                 /\ warning' = (warning \/ SumIsNotOne(next_sample_prob))
                 /\ UNCHANGED <<error, pc>>
    /\ UNCHANGED <<input_vars, op, page, n, result, iterate_vars>>

\* After the loop: divide the counters by n, check the sum, return.
SampleReturn ==
    /\ pc = "sample_loop"
    /\ ~ in_range(iteration, n)
    /\ pc' = "done"
    /\ IF keys # {} /\ n = 0
       THEN \* value/n raises ZeroDivisionError
            /\ error' = "ZeroDivisionError"
            /\ UNCHANGED result
       ELSE LET dist == [key \in keys |-> RDivInt(RInt(sample_PR[key]), n)]
            IN  IF SumIsNotOne(dist)
                THEN \* the f-string names trans_mod, unbound here
                     /\ error' = "NameError"
                     /\ UNCHANGED result
                ELSE /\ result' = dist
                     /\ error' = "none"
    /\ UNCHANGED <<input_vars, op, page, warning, sample_vars, iterate_vars>>

\* -------------------------------------------------------- iterate_pagerank
LCM(a, b) ==
    CHOOSE r \in { (x * y) \div GCD(x, y) : x \in {a}, y \in {b} } : TRUE

RECURSIVE LCMOver(_)
LCMOver(S) ==
    CHOOSE r \in { IF T = {} THEN 1
                   ELSE LET k == CHOOSE x \in T : TRUE
                        IN  LCM(k, LCMOver(T \ {k}))
                   : T \in {S} } : TRUE

\* The factor by which the common denominator grows in one pass, so that
\* every division of the pass (by num_links, by the damping's denominator)
\* is exact.
Refine(c, d) ==
    d.den * LCMOver({ Cardinality(c[q]) : q \in DOMAIN c } \ {0})

\* The number 1 and the fraction 1/num_pages need a denominator that
\* num_pages divides.
InitScale(c) ==
    BFromInt(IF DOMAIN c = {} THEN 1 ELSE Cardinality(DOMAIN c))

NotConverged_until_zero(chg, sc) == chg # <<>>
\* changes >= 0.001
NotConverged(chg, sc) == ~ BLess(BMulSmall(chg, ThresholdDen), sc)

CallIterate ==
    /\ pc = "idle"
    /\ op' = "iterate"
    /\ scale' = InitScale(corpus)
    /\ iterate_PR' = [p \in keys |-> BDivSmall(InitScale(corpus), num_pages)]
    /\ previous_state' = <<>>
    /\ changes' = InitScale(corpus)
    /\ iterations' = 1
    /\ todo' = {}
    /\ pc' = "while"
    /\ UNCHANGED <<input_vars, page, result, error, warning, sample_vars>>

\* The while test holds: reset changes, snapshot the ranks, start the for
\* loop.  The ranks keep their values; their denominator is refined.
IterBegin ==
    /\ pc = "while"
    /\ NotConverged(changes, scale)
    /\ iterations <= MaxIter
    /\ LET r == Refine(corpus, damping_factor)
       IN  /\ scale' = BMulSmall(scale, r)
           /\ iterate_PR' = [p \in keys |-> BMulSmall(iterate_PR[p], r)]
           /\ previous_state' = [p \in keys |-> BMulSmall(iterate_PR[p], r)]
    /\ changes' = <<>>
    /\ todo' = keys
    /\ pc' = "for"
    /\ UNCHANGED <<input_vars, op, page, result, error, warning, sample_vars,
                   iterations>>

parent_rank_in_place(parent) == iterate_PR[parent]
\* previous_state[parent]
parent_rank(parent) == previous_state[parent]

first_undivided ==
    BDivSmall(BMulSmall(scale, damping_factor.den - damping_factor.num),
              damping_factor.den)
\* (1 - damping_factor) / num_pages
first ==
    BDivSmall(BMulSmall(scale, damping_factor.den - damping_factor.num),
              damping_factor.den * num_pages)

val_undivided(parent) == parent_rank(parent)
\* previous_state[parent] / num_links
val(parent) == BDivSmall(parent_rank(parent), Cardinality(corpus[parent]))

\* first + (damping_factor * second), for one page of the for loop.
new_rank(pg) ==
    LET parents == { link \in keys : pg \in corpus[link] }
        second == BSum([parent \in parents |-> val(parent)])
    IN  BAdd(first,
             BDivSmall(BMulSmall(second, damping_factor.num),
                       damping_factor.den))

\* One page of `for page in iterate_PR`; the dictionary's order is the
\* order os.listdir gave, so any page not yet visited may come next.
IterPage(pg) ==
    /\ pc = "for"
    /\ pg \in todo
    /\ LET new == new_rank(pg)
           new_change == BAbsDiff(new, previous_state[pg])
       IN  /\ iterate_PR' = [iterate_PR EXCEPT ![pg] = new]
           /\ changes' = IF BLess(changes, new_change)
                         THEN new_change ELSE changes
    /\ todo' = todo \ {pg}
    /\ UNCHANGED <<input_vars, op, pc, page, result, error, warning,
                   sample_vars, previous_state, scale, iterations>>

\* The for loop is over: iterations += 1, back to the while test.
IterEnd ==
    /\ pc = "for"
    /\ todo = {}
    /\ iterations' = iterations + 1
    /\ pc' = "while"
    /\ UNCHANGED <<input_vars, op, page, result, error, warning, sample_vars,
                   iterate_PR, previous_state, scale, changes, todo>>

dictsum_of_snapshot == BSum(previous_state)
\* sum(iterate_PR.values())
dictsum == BSum(iterate_PR)

\* The while test fails: normalize and return.
IterReturn ==
    /\ pc = "while"
    /\ ~ NotConverged(changes, scale)
    /\ pc' = "done"
    /\ IF keys # {} /\ dictsum = <<>>
       THEN \* value/dictsum raises ZeroDivisionError
            /\ error' = "ZeroDivisionError"
            /\ UNCHANGED result
       ELSE /\ result' = [key \in keys |->
                             [num |-> iterate_PR[key], den |-> dictsum]]
            /\ error' = "none"
    /\ UNCHANGED <<input_vars, op, page, warning, sample_vars, iterate_vars>>

\* ------------------------------------------------------------ the system
Next ==
    \/ \E pg \in Pages : CallTransition(pg)
    \/ \E nn \in SampleCounts : CallSample(nn)
    \/ SampleStep
    \/ SampleReturn
    \/ CallIterate
    \/ IterBegin
    \/ \E pg \in Pages : IterPage(pg)
    \/ IterEnd
    \/ IterReturn

Spec == Init /\ [][Next]_vars

\* The program is one thread that never waits: a step that can be taken is.
FairSpec == Spec /\ WF_vars(Next)

\* ------------------------------------------------------------ the claims
\* A damping factor strictly between 0 and 1.
ValidDamping(d) == RLess(RInt(0), d) /\ RLess(d, RInt(1))

\* A non-empty graph and a damping factor strictly between 0 and 1.
ValidInput == keys # {} /\ ValidDamping(damping_factor)

TransitionReturned == op = "transition" /\ pc = "done" /\ page \in keys

\* C1: for a non-empty valid graph, a page of it and a damping factor in
\* (0, 1), transition_model returns one entry for every page of the graph,
\* and the entries sum to 1 (so the rounded sum is 1 and nothing is
\* printed).
C1_TransitionSumsToOne ==
    (TransitionReturned /\ ValidInput) =>
        /\ error = "none"
        /\ DOMAIN result = keys
        /\ RSum(result) = RInt(1)
        /\ ~ warning

\* C1's case: a page with one link among three pages, damping 0.85.
C1_Witness ==
    /\ TransitionReturned /\ ValidInput
    /\ num_pages = 3
    /\ Cardinality(corpus[page]) = 1
    /\ damping_factor = DAMPING
    /\ DOMAIN result = keys

\* The transition model as the specification writes it, for page p.
ReferenceTransition(p) ==
    LET d == damping_factor
        out == corpus[page]
    IN  IF out = {} THEN Rat(1, num_pages)
        ELSE RAdd(Rat(d.den - d.num, d.den * num_pages),
                  IF p \in out THEN Rat(d.num, d.den * Cardinality(out))
                  ELSE RInt(0))

DanglingExample == [p \in {"A", "B"} |-> IF p = "A" THEN {} ELSE {"A"}]

\* C2: transition_model equals the reference entry by entry: 1/num_pages
\* for every page when corpus[page] is empty, whatever the damping, and
\* otherwise (1 - damping)/num_pages plus damping/num_links for the linked
\* pages; on {A: {}, B: {A}} from A the result is {A: 1/2, B: 1/2}.
C2_TransitionMatchesReference ==
    TransitionReturned =>
        /\ DOMAIN result = keys
        /\ \A p \in keys : result[p] = ReferenceTransition(p)
        /\ (corpus[page] = {} =>
               \A p \in keys : result[p] = Rat(1, num_pages))
        /\ (corpus = DanglingExample /\ page = "A" =>
               result = [p \in {"A", "B"} |-> Rat(1, 2)])

\* C2's case: the dangling example at damping 0.85.
C2_Witness ==
    /\ TransitionReturned
    /\ corpus = DanglingExample /\ page = "A"
    /\ damping_factor = DAMPING
    /\ result["B"] = Rat(1, 2)

SampleCall == op = "sample" /\ ValidInput /\ n >= 1

\* What holds of sample_pagerank's state throughout a valid call.
C3_SampleState ==
    SampleCall =>
        /\ DOMAIN sample_PR = keys
        /\ \A p \in keys : sample_PR[p] >= 0
        /\ RSum([p \in keys |-> RInt(sample_PR[p])]) = RInt(iteration)
        /\ iteration <= n
        /\ (iteration > 0 => sample \in keys)
        /\ (pc = "done" =>
               /\ error = "none"
               /\ iteration = n
               /\ DOMAIN result = keys
               /\ \A p \in keys : result[p] = Rat(sample_PR[p], n)
               /\ RSum(result) = RInt(1))

\* What one sampling step does in a valid call: one counter goes up by 1,
\* the others stay, and the step count goes up by 1.
C3_SampleStepEffect ==
    (SampleCall /\ pc = "sample_loop" /\ iteration' # iteration) =>
        /\ iteration' = iteration + 1
        /\ sample' \in keys
        /\ sample_PR' = [sample_PR EXCEPT ![sample'] = @ + 1]

\* C3: in a valid call with n >= 1, sample_pagerank takes exactly n steps,
\* each step adds 1 to exactly one counter (after k steps the counters sum
\* to k and the current sample is a key), and the value returned for each
\* page is its counter divided by n, so the values sum to 1 and cover every
\* page.
C3_SampleCounts == [] C3_SampleState /\ [][C3_SampleStepEffect]_vars

\* C3's case: a call with n = 3 that returned after visiting two pages.
C3_Witness ==
    /\ SampleCall /\ pc = "done" /\ n = 3
    /\ \E p, q \in keys : sample_PR[p] = 2 /\ sample_PR[q] = 1
    /\ DOMAIN result = keys

IterateCall == op = "iterate" /\ ValidInput

\* A pass of the while loop has just ended.
AfterIteration == pc = "while" /\ iterations > 1

\* The loop goes on only while the last pass changed some rank by 0.001 or
\* more, and is left only once no rank changed by that much.
C4_LoopTest ==
    IterateCall =>
        /\ (pc = "while" /\ pc' = "for" =>
               ~ BLess(BMulSmall(changes, ThresholdDen), scale))
        /\ (pc = "while" /\ pc' = "done" =>
               BLess(BMulSmall(changes, ThresholdDen), scale))

\* C4: for a non-empty valid graph and a damping factor in (0, 1),
\* iterate_pagerank does not loop forever: the loop is left at the first
\* pass whose largest per-page change is below 0.001, after finitely many
\* passes, and the call returns (no pass is ever refused by an iteration
\* cap, so no non-convergence is there to report).
C4_IterateTerminates ==
    /\ (IterateCall ~> (pc = "done" /\ error = "none"))
    /\ [][C4_LoopTest]_vars

\* C4's case: a call that returned after more than 30 passes.
C4_Witness ==
    /\ IterateCall /\ pc = "done" /\ error = "none"
    /\ iterations > 30 /\ iterations <= MaxIter

\* C5: for a non-empty valid graph and a damping factor in (0, 1) the
\* dictionary iterate_pagerank returns has one entry for every page, each
\* the last pass's rank divided by the sum of all ranks, the sum is not
\* zero, and the entries sum to 1.
C5_IterateNormalized ==
    (IterateCall /\ pc = "done") =>
        /\ error = "none"
        /\ DOMAIN result = keys
        /\ \A p \in keys :
              /\ result[p].num = iterate_PR[p]
              /\ result[p].den = BSum(iterate_PR)
              /\ result[p].den # <<>>
              /\ BSum([q \in keys |-> result[q].num]) = result[p].den

\* C5's case: a returned call on a graph with a page without links, where
\* the ranks before normalization do not sum to 1.
C5_Witness ==
    /\ IterateCall /\ pc = "done"
    /\ \E p \in keys : corpus[p] = {}
    /\ BLess(BSum(iterate_PR), scale)
    /\ DOMAIN result = keys

\* C6, as claimed: on an empty graph each of the three functions ends in an
\* error and returns nothing, and so does transition_model for a page that
\* is no key of the graph.
C6_InvalidGraphRaises ==
    (pc = "done" /\ (keys = {} \/ (op = "transition" /\ page \notin keys)))
        => error # "none"

\* C7, as claimed: a call with a damping factor outside (0, 1), or of
\* sample_pagerank with n < 1, ends in an error and returns nothing.
C7_InvalidParameterRaises ==
    (pc = "done" /\ (~ ValidDamping(damping_factor)
                     \/ (op = "sample" /\ n < 1)))
        => error # "none"

\* The permutations of the pages that map the graph onto itself.
Symmetries ==
    { f \in [keys -> keys] :
        /\ \A p, q \in keys : f[p] = f[q] => p = q
        /\ \A p \in keys : corpus[f[p]] = { f[q] : q \in corpus[p] } }

TwoCycle == [p \in {"A", "B"} |-> IF p = "A" THEN {"B"} ELSE {"A"}]

Hub == [p \in {"A", "B", "C"} |-> IF p = "A" THEN {"B", "C"} ELSE {"A"}]

\* C8: iterate_pagerank gives equal ranks to pages that a symmetry of the
\* graph exchanges, after every pass and in the result; at damping 0.85 it
\* returns A = B = 1/2 on {A: {B}, B: {A}} and rank(A) > rank(B) = rank(C)
\* on {A: {B, C}, B: {A}, C: {A}}.
C8_IterateSymmetric ==
    IterateCall =>
        /\ (pc = "while" =>
               \A f \in Symmetries : \A p \in keys :
                   iterate_PR[f[p]] = iterate_PR[p])
        /\ (pc = "done" =>
               \A f \in Symmetries : \A p \in keys : result[f[p]] = result[p])
        /\ (pc = "done" /\ corpus = TwoCycle /\ damping_factor = DAMPING =>
               /\ result["A"] = result["B"]
               /\ BMulSmall(result["A"].num, 2) = result["A"].den)
        /\ (pc = "done" /\ corpus = Hub /\ damping_factor = DAMPING =>
               /\ result["B"] = result["C"]
               /\ result["A"].den = result["B"].den
               /\ BLess(result["B"].num, result["A"].num))

\* C8's case: the hub graph at damping 0.85, returned.
C8_Witness ==
    /\ IterateCall /\ pc = "done"
    /\ corpus = Hub /\ damping_factor = DAMPING
    /\ BLess(result["C"].num, result["A"].num)

\* The least common multiple of the out-degrees, to state C9 without a
\* division.
OutLcm == LCMOver({ Cardinality(corpus[q]) : q \in keys } \ {0})

\* rank * (damping's denominator * num_pages * OutLcm), from the recurrence
\* applied to the snapshot prev.
RecurrenceTimes(prev, p) ==
    LET d == damping_factor
        parents == { q \in keys : p \in corpus[q] }
        terms == [q \in parents |->
                     BMulSmall(prev[q], OutLcm \div Cardinality(corpus[q]))]
    IN  BAdd(BMulSmall(scale, (d.den - d.num) * OutLcm),
             BMulSmall(BSum(terms), d.num * num_pages))

\* C9: every rank starts at 1/num_pages, and every pass sets the rank of
\* every page p to (1 - damping)/num_pages + damping * (sum over the pages
\* q with p in corpus[q] of previous[q] / |corpus[q]|), previous being the
\* snapshot taken when the pass began, in whatever order the pages are
\* visited; a page without links is in no such sum.
C9_IterateRecurrence ==
    (op = "iterate" /\ keys # {}) =>
        /\ (pc = "while" /\ iterations = 1 =>
               \A p \in keys : BMulSmall(iterate_PR[p], num_pages) = scale)
        /\ (pc = "for" /\ iterations = 1 =>
               \A p \in keys : BMulSmall(previous_state[p], num_pages) = scale)
        /\ \A p \in keys :
              ((pc = "for" /\ p \notin todo) \/ AfterIteration) =>
                  BMulSmall(iterate_PR[p],
                            damping_factor.den * num_pages * OutLcm)
                      = RecurrenceTimes(previous_state, p)

\* C9's case: the second pass is over on a graph where a page with two
\* links links to a page without links and to another page, and the two
\* targets have different ranks.
C9_Witness ==
    /\ IterateCall /\ AfterIteration /\ iterations = 3
    /\ \E p, q, r \in keys :
          /\ corpus[p] = {} /\ Cardinality(corpus[q]) = 2 /\ p \in corpus[q]
          /\ r \in corpus[q] /\ r # p
          /\ iterate_PR[r] # iterate_PR[p]

SomeDangling == \E p \in keys : corpus[p] = {}

\* C10: before normalization, after every pass of a valid call, each rank
\* is at least (1 - damping)/num_pages and the ranks sum to at least
\* 1 - damping and at most 1: to exactly 1 when every page has a link (the
\* normalization then changes nothing), to less than 1 when some page has
\* none.
C10_IterateMass ==
    (IterateCall /\ (AfterIteration \/ (pc = "done" /\ iterations > 1))) =>
        LET d == damping_factor
            total == BSum(iterate_PR)
        IN  /\ \A p \in keys :
                  ~ BLess(BMulSmall(iterate_PR[p], d.den * num_pages),
                          BMulSmall(scale, d.den - d.num))
            /\ ~ BLess(BMulSmall(total, d.den),
                       BMulSmall(scale, d.den - d.num))
            /\ ~ BLess(scale, total)
            /\ (~ SomeDangling => total = scale)
            /\ (~ SomeDangling /\ pc = "done" =>
                   \A p \in keys : result[p] = [num |-> iterate_PR[p],
                                                den |-> scale])
            /\ (SomeDangling => BLess(total, scale))

\* C10's case: a pass is over on a graph with a page without links and a
\* page with links.
C10_Witness ==
    /\ IterateCall /\ AfterIteration
    /\ SomeDangling /\ \E p \in keys : corpus[p] # {}
    /\ BLess(BSum(iterate_PR), scale)

\* C10's other case: a pass is over on a graph where every page has a link.
C10_WitnessNoDangling ==
    /\ IterateCall /\ AfterIteration /\ iterations > 2
    /\ ~ SomeDangling /\ BSum(iterate_PR) = scale

====
